---- MODULE Spec2Model ----
(***************************************************************************)
(* "Spot the Manipulation" (src/app.py): the manifest loader               *)
(* (load_metadata behind st.cache_data), the path helpers, and the round   *)
(* engine driven by Streamlit script runs over st.session_state.           *)
(*                                                                         *)
(* Strings are TLA+ strings; TLC evaluates Len, \o and SubSeq on them, so  *)
(* strip, lower, replace, split and os.path.join are computed character by *)
(* character as Python computes them.                                      *)
(***************************************************************************)
EXTENDS Integers, Sequences, FiniteSets, TLC

\* ---------------------------------------------------------------- bounds
\* Longest manifest (data rows) drawn for the loader specification.
MaxRows == 2
\* Largest round count drawn for the loader specification.
MaxRounds == 3
\* Longest manifest (data rows) drawn for the session specification.
MaxGameRows == 3
\* Longest manifest drawn where image files are removed while the app runs,
\* and the most files removed.
MaxFileRows == 2
MaxRemoved == 1
\* Longest manifest drawn for two simultaneous sessions.
MaxSharedRows == 2

\* ------------------------------------------------------- program constants
\* ROUNDS = 10
ROUNDS == 10
\* BASE_DIR = os.path.dirname(os.path.abspath(__file__)): the directory of app.py
BASE_DIR == "/app"

\* ---------------------------------------------------------------- strings
Min(a, b) == IF a < b THEN a ELSE b

Char(s, i) == SubSeq(s, i, i)

\* str.strip() removes leading and trailing whitespace
Whitespace == {" ", "\t"}

RECURSIVE lstrip(_)
lstrip(s) ==
  IF Len(s) > 0 /\ Char(s, 1) \in Whitespace THEN lstrip(SubSeq(s, 2, Len(s))) ELSE s

RECURSIVE rstrip(_)
rstrip(s) ==
  IF Len(s) > 0 /\ Char(s, Len(s)) \in Whitespace
  THEN rstrip(SubSeq(s, 1, Len(s) - 1)) ELSE s

strip(s) == rstrip(lstrip(s))

\* str.lower() on the letters the manifests use
UpperCase == <<"A", "C", "E", "F", "H", "K", "L", "M", "N", "O", "P", "R", "T">>
LowerCase == <<"a", "c", "e", "f", "h", "k", "l", "m", "n", "o", "p", "r", "t">>

lower_char(c) ==
  IF \E i \in 1..Len(UpperCase) : UpperCase[i] = c
  THEN LowerCase[CHOOSE i \in 1..Len(UpperCase) : UpperCase[i] = c]
  ELSE c

RECURSIVE lower(_)
lower(s) ==
  IF Len(s) = 0 THEN s ELSE lower_char(Char(s, 1)) \o lower(SubSeq(s, 2, Len(s)))

\* rel.replace("\\", "/")
RECURSIVE replace_backslash(_)
replace_backslash(s) ==
  IF Len(s) = 0 THEN s
  ELSE (IF Char(s, 1) = "\\" THEN "/" ELSE Char(s, 1))
       \o replace_backslash(SubSeq(s, 2, Len(s)))

\* s.split("/"): the segments between separators, empty ones kept
RECURSIVE split_from(_, _, _)
split_from(s, i, cur) ==
  IF i > Len(s) THEN <<cur>>
  ELSE IF Char(s, i) = "/" THEN <<cur>> \o split_from(s, i + 1, "")
  ELSE split_from(s, i + 1, cur \o Char(s, i))

split(s) == split_from(s, 1, "")

\* posixpath.join(a, *p)
join2(path, b) ==
  IF Len(b) > 0 /\ Char(b, 1) = "/" THEN b
  ELSE IF Len(path) = 0 \/ Char(path, Len(path)) = "/" THEN path \o b
  ELSE path \o "/" \o b

RECURSIVE join_from(_, _, _)
join_from(path, segs, i) ==
  IF i > Len(segs) THEN path ELSE join_from(join2(path, segs[i]), segs, i + 1)

os_path_join(segs) == join_from(segs[1], segs, 2)

WWW_DIR == os_path_join(<<BASE_DIR, "www">>)

_norm_rel_path(rel) ==
  LET r == strip(replace_backslash(rel))
  IN  IF r # "" THEN os_path_join(split(r)) ELSE r

_abs_from_rel(rel) == os_path_join(<<WWW_DIR, _norm_rel_path(rel)>>)

\* ------------------------------------------------------------- filesystem
\* A node is the sequence of its path segments below "/".  The directories are
\* fixed; the image files under www/ are the variable part (files).
Dirs ==
  { <<>>, <<"app">>, <<"app", "www">>,
    <<"app", "www", "fake">>, <<"app", "www", "real">> }

\* Files that are no images: the script itself and the manifest.
OtherFiles == { <<"app", "app.py">>, <<"app", "manipulation_info.csv">> }

ImageFiles ==
  { <<"app", "www", "fake", "1.jpg">>, <<"app", "www", "real", "1.jpg">>,
    <<"app", "www", "fake", "2.jpg">>, <<"app", "www", "real", "2.jpg">> }

parent(node) == IF Len(node) = 0 THEN node ELSE SubSeq(node, 1, Len(node) - 1)

\* POSIX path resolution (no symbolic links): the node a path names, if any.
RECURSIVE walk(_, _, _, _)
walk(segs, i, cur, fs) ==
  IF i > Len(segs) THEN [ok |-> TRUE, node |-> cur]
  ELSE IF cur \notin Dirs THEN [ok |-> FALSE, node |-> cur]
  ELSE IF segs[i] \in {"", "."} THEN walk(segs, i + 1, cur, fs)
  ELSE IF segs[i] = ".." THEN walk(segs, i + 1, parent(cur), fs)
  ELSE IF Append(cur, segs[i]) \in Dirs \cup OtherFiles \cup fs
       THEN walk(segs, i + 1, Append(cur, segs[i]), fs)
       ELSE [ok |-> FALSE, node |-> cur]

stat(path, fs) == walk(split(path), 1, <<>>, fs)

os_path_exists(path, fs) == path # "" /\ stat(path, fs).ok

\* ----------------------------------------------------------------- inputs
\* Header rows: as documented, in another case and with blanks, with a required
\* column missing, with both missing.
GameColumns == { <<"fake_path", "real_path">>, <<"fake_path", "path">> }

ValidRows == { <<"fake/1.jpg", "real/1.jpg">>, <<"fake/2.jpg", "real/2.jpg">> }

\* The rows of the session specification: two valid ones, one whose fake image
\* is not in www/.
GameRows == ValidRows \cup { <<"fake/3.jpg", "real/1.jpg">> }

LoadColumns ==
  GameColumns \cup
  { <<" Real_Path", "FAKE_PATH\t">>, <<"real", "Real_path">>, <<"fake", "real">> }

\* The rows of the loader specification: valid ones, blanks and backslashes, an
\* empty and a blank cell, directories, a path that leaves www/.
LoadRows ==
  ValidRows \cup
  { <<" fake\\1.jpg ", "real/2.jpg">>, <<"", "real/1.jpg">>, <<"fake/1.jpg", " ">>,
    <<"fake", "real/">>, <<"../app.py", "/real//1.jpg">> }

\* The path texts a DataFrame row can hold: the drawn cells, trimmed.
CellTexts == { strip(row[j]) : row \in LoadRows \cup GameRows, j \in 1..2 }

LoadFiles == { ImageFiles, ImageFiles \ { <<"app", "www", "real", "1.jpg">> } }

\* ----------------------------------------------------------------- loader
\* pd.read_csv(csv_path, dtype=str): a cell whose text is one of the default
\* NA markers is read as NaN, every other cell as its text.
NaValues == {"", "NA", "N/A", "NaN", "nan", "null", "NULL", "None", "n/a", "<NA>"}

read_cell(text) == IF text \in NaValues THEN [na |-> TRUE, s |-> ""]
                   ELSE [na |-> FALSE, s |-> text]

read_csv(csv) ==
  [ columns |-> csv.columns,
    rows |-> [i \in 1..Len(csv.rows) |->
                [j \in 1..Len(csv.rows[i]) |-> read_cell(csv.rows[i][j])]] ]

\* a normalisation that trims and keeps the case
normalize_column_keeps_case(c) == strip(c)

\* df.columns = [c.strip().lower() for c in df.columns]
normalize_column(c) == lower(strip(c))

normalize_columns(columns) == [j \in 1..Len(columns) |-> normalize_column(columns[j])]

required == {"fake_path", "real_path"}

\* sorted(missing_cols)
sorted_cols(cols) == SelectSeq(<<"fake_path", "real_path">>, LAMBDA c : c \in cols)

missing_cols(columns) == required \ { columns[j] : j \in 1..Len(columns) }

\* lambda x: x.strip() if isinstance(x, str) else x
strip_cell(x) == IF x.na THEN x ELSE [na |-> FALSE, s |-> strip(x.s)]

col_index(columns, name) == CHOOSE j \in 1..Len(columns) : columns[j] = name

\* df.dropna(subset=[...]) and df[(fake_path != "") & (real_path != "")]
keep_row(fake, real) == ~fake.na /\ ~real.na /\ fake.s # "" /\ real.s # ""

exists_row(row, fs) ==
  LET fake_abs == _abs_from_rel(row.fake_path)
      real_abs == _abs_from_rel(row.real_path)
  IN  os_path_exists(fake_abs, fs) /\ os_path_exists(real_abs, fs)

\* exists_row on every row and every state of www/, evaluated once.
exists_row_memo ==
  [ row \in [fake_path : CellTexts, real_path : CellTexts], fs \in SUBSET ImageFiles |->
      exists_row(row, fs) ]

\* a head that truncates nothing
head_keeps_all(df, n) == df

\* df.head(n)
head(df, n) == SubSeq(df, 1, n)

\* df.sample(frac=1, random_state=None): every permutation of the rows
Perms(n) == { p \in [1..n -> 1..n] : \A i, j \in 1..n : p[i] = p[j] => i = j }

\* a sample drawn with replacement
sample_with_replacement(df) ==
  { [i \in 1..Len(df) |-> df[p[i]]] : p \in [1..Len(df) -> 1..Len(df)] }

sample(df) == { [i \in 1..Len(df) |-> df[p[i]]] : p \in Perms(Len(df)) }

Returned(df) == [raised |-> FALSE, missing |-> <<>>, df |-> df]

\* The body of load_metadata: the set of its outcomes, one per shuffle.
load_metadata(csv, rounds, fs) ==
  LET df0     == read_csv(csv)
      columns == normalize_columns(df0.columns)
      missing == missing_cols(columns)
  IN  IF missing # {}
      THEN { [raised |-> TRUE, missing |-> sorted_cols(missing), df |-> <<>>] }
      ELSE
        LET fk    == col_index(columns, "fake_path")
            rl    == col_index(columns, "real_path")
            cells == [i \in 1..Len(df0.rows) |->
                        [fake |-> strip_cell(df0.rows[i][fk]),
                         real |-> strip_cell(df0.rows[i][rl])]]
            kept  == SelectSeq(cells, LAMBDA c : keep_row(c.fake, c.real))
            df1   == [i \in 1..Len(kept) |->
                        [fake_path |-> kept[i].fake.s, real_path |-> kept[i].real.s]]
            df2   == SelectSeq(df1, LAMBDA row : exists_row_memo[row, fs])
        IN  IF Len(df1) = 0 THEN { Returned(df1) }
            ELSE IF Len(df2) = 0 THEN { Returned(df2) }
            ELSE { Returned(head(d, Min(rounds, Len(d)))) : d \in sample(df2) }

\* @st.cache_data: one entry per (csv_path, rounds); both arguments are the same
\* in every call, so the cache is one slot.  A raised exception is not stored.
cached_load_metadata(c, csv, rounds, fs) ==
  IF c.hit THEN { Returned(c.value) } ELSE load_metadata(csv, rounds, fs)

\* ------------------------------------------------------------------ state
VARIABLES
  csv,            \* manipulation_info.csv: [columns, rows], the raw cell texts
  files,          \* the image files that exist under www/ now
  cache,          \* the st.cache_data slot of load_metadata
  sessions,       \* the browser sessions connected to the app
  session_state,  \* per session: st.session_state (df, step, answers, show_real)
  widget_state,   \* per session: the values of the keyed widgets
  page,           \* per session: what the last script run rendered
  returned,       \* the outcome of the last direct call load_metadata(csv, n)
  loader_call,    \* history: how the last script run obtained its DataFrame
  widget_log      \* history, per session: the last value each round-keyed
                  \* widget of the rounds played so far has held

vars == <<csv, files, cache, sessions, session_state, widget_state, page,
          returned, loader_call, widget_log>>

\* The text typed into "What was manipulated?" and the radio's options.
Guesses == {"", "nose"}
Choices == <<"Yes", "No">>

NoCache == [hit |-> FALSE, value |-> <<>>]

\* st.session_state of a new session holds no key.
NewSessionState ==
  [keys |-> {}, df |-> <<>>, step |-> 0, answers |-> <<>>, show_real |-> FALSE]

NoPage ==
  [ view |-> "none", exception |-> FALSE, missing |-> <<>>, round |-> 0,
    total |-> 0, correct_answers |-> 0, buttons |-> {}, widgets |-> {},
    images |-> {}, warnings |-> {} ]

\* f"guess_{st.session_state.step}", f"correct_{st.session_state.step}"
guess_key(step) == "guess_" \o ToString(step)
correct_key(step) == "correct_" \o ToString(step)

\* A keyed widget keeps the value it has and starts from its default.
register(ws, key, default) == IF key \in DOMAIN ws THEN ws ELSE (key :> default) @@ ws

restrict(ws, keys) == [k \in (DOMAIN ws) \cap keys |-> ws[k]]

\* ---------------------------------------------------------------- helpers
\* load_image: None for an empty path, a warning and None for a missing file;
\* Image.open raises on a directory and on a file that is no image.
\* load_image without the os.path.exists check: Image.open raises
load_image_unchecked(rel_path, fs) ==
  IF strip(rel_path) = "" THEN [raised |-> FALSE, img |-> FALSE, warning |-> FALSE]
  ELSE LET abs_path == _abs_from_rel(rel_path)
       IN  IF stat(abs_path, fs).ok /\ stat(abs_path, fs).node \in fs
           THEN [raised |-> FALSE, img |-> TRUE, warning |-> FALSE]
           ELSE [raised |-> TRUE, img |-> FALSE, warning |-> FALSE]

load_image(rel_path, fs) ==
  IF strip(rel_path) = "" THEN [raised |-> FALSE, img |-> FALSE, warning |-> FALSE]
  ELSE LET abs_path == _abs_from_rel(rel_path)
       IN  IF ~os_path_exists(abs_path, fs)
           THEN [raised |-> FALSE, img |-> FALSE, warning |-> TRUE]
           ELSE IF stat(abs_path, fs).node \in fs
           THEN [raised |-> FALSE, img |-> TRUE, warning |-> FALSE]
           ELSE [raised |-> TRUE, img |-> FALSE, warning |-> FALSE]

\* load_image on every path text and every state of www/, evaluated once.
load_image_memo ==
  [ rel_path \in CellTexts, fs \in SUBSET ImageFiles |-> load_image(rel_path, fs) ]

\* next_round without the reset of show_real
next_round_keeps_revealed(ss) == [ss EXCEPT !.step = ss.step + 1]

\* a next_round that moves two rounds ahead
next_round_skips(ss) == [ss EXCEPT !.step = ss.step + 2, !.show_real = FALSE]

next_round(ss) == [ss EXCEPT !.step = ss.step + 1, !.show_real = FALSE]

\* record_answer that advances first and reads the widgets afterwards
record_answer_reads_late(ss, ws) ==
  LET advanced == [ss EXCEPT !.step = ss.step + 1, !.show_real = FALSE]
  IN  IF guess_key(advanced.step) \notin DOMAIN ws
         \/ correct_key(advanced.step) \notin DOMAIN ws
      THEN [ss |-> advanced, raised |-> TRUE]
      ELSE [ss |-> [advanced EXCEPT !.answers =
                      Append(ss.answers,
                             [guess |-> ws[guess_key(advanced.step)],
                              correct |-> (ws[correct_key(advanced.step)] = "Yes")])],
            raised |-> FALSE]

\* a callback that puts the new record in front of the log
record_answer_prepends(ss, ws) ==
  IF guess_key(ss.step) \notin DOMAIN ws \/ correct_key(ss.step) \notin DOMAIN ws
  THEN [ss |-> ss, raised |-> TRUE]
  ELSE [ss |-> next_round([ss EXCEPT !.answers =
                  << [guess |-> ws[guess_key(ss.step)],
                      correct |-> (ws[correct_key(ss.step)] = "Yes")] >> \o ss.answers]),
        raised |-> FALSE]

\* The on_click callback of "Next".  A key that is not in the session state
\* raises KeyError and ends the callback where it stands.
record_answer(ss, ws) ==
  IF guess_key(ss.step) \notin DOMAIN ws \/ correct_key(ss.step) \notin DOMAIN ws
  THEN [ss |-> ss, raised |-> TRUE]
  ELSE LET guess_text     == ws[guess_key(ss.step)]
           correct_choice == ws[correct_key(ss.step)]
           appended == [ss EXCEPT !.answers =
                          Append(ss.answers, [guess |-> guess_text,
                                              correct |-> (correct_choice = "Yes")])]
       IN  [ss |-> next_round(appended), raised |-> FALSE]

\* ------------------------------------------------------------ script run
\* One run of app.py top to bottom for a session: ss is st.session_state, ws the
\* widget values, clicked the button whose click started the run ("" for none),
\* r the outcome load_metadata has if the run calls it.  The result names the
\* new session state, the widget values kept, the page rendered and whether
\* load_metadata was called.

\* Session state init: each key is set only if it is not there yet.
session_state_init(ss, r) ==
  [ keys      |-> {"df", "step", "answers", "show_real"},
    df        |-> IF "df" \in ss.keys THEN ss.df ELSE r.df,
    step      |-> IF "step" \in ss.keys THEN ss.step ELSE 0,
    answers   |-> IF "answers" \in ss.keys THEN ss.answers ELSE <<>>,
    show_real |-> IF "show_real" \in ss.keys THEN ss.show_real ELSE FALSE ]

\* a guard that never stops the script
no_valid_rows_never(total) == FALSE

\* Guard: no valid rows
no_valid_rows(total) == total = 0

\* if st.session_state.step < total: the game loop, else the summary
in_game(step, total) == step < total

\* a summary that counts every answer
correct_count_all(answers) == Len(answers)

correct_count(answers) == Cardinality({ i \in 1..Len(answers) : answers[i].correct })

\* a "Play Again" handler that keeps the answers
play_again_keeps_answers(ss, r) ==
  [ss EXCEPT !.df = r.df, !.step = 0, !.show_real = FALSE]

\* The "Play Again" handler
play_again(ss, r) ==
  [ss EXCEPT !.df = r.df, !.step = 0, !.answers = <<>>, !.show_real = FALSE]

\* a reveal that also moves to the next round
reveal_original_skips(ss) == [ss EXCEPT !.show_real = TRUE, !.step = ss.step + 1]

\* st.session_state.show_real = True, the effect of "Reveal Original"
reveal_original(ss) == [ss EXCEPT !.show_real = TRUE]

\* a page that shows the comparison and "Next" before the reveal
show_comparison_always(ss) == TRUE

\* if st.session_state.show_real: the comparison, the radio and "Next"
show_comparison(ss) == ss.show_real

\* a radio that starts on its second option
radio_default_no == Choices[2]

\* st.radio(..., index=0): the option a new radio holds
radio_default == Choices[1]

game_loop(ss, ws, clicked, fs, called) ==
  LET total    == Len(ss.df)
      row      == ss.df[ss.step + 1]
      gk       == guess_key(ss.step)
      ck       == correct_key(ss.step)
      ws1      == register(ws, gk, "")
      reveal   == ~ss.show_real
      ss1      == IF reveal /\ clicked = "Reveal Original"
                  THEN reveal_original(ss) ELSE ss
      buttons1 == IF reveal THEN {"Reveal Original"} ELSE {}
      fake_img == load_image_memo[row.fake_path, fs]
      real_img == load_image_memo[row.real_path, fs]
      base     == [NoPage EXCEPT !.view = "round", !.round = ss.step + 1,
                                 !.total = total, !.buttons = buttons1,
                                 !.widgets = {gk}]
  IN  IF fake_img.raised
      THEN [ss |-> ss1, ws |-> ws1, called |-> called,
            page |-> [base EXCEPT !.exception = TRUE]]
      ELSE
        LET top == [base EXCEPT
                      !.images = IF fake_img.img THEN {"Fake Image"} ELSE {},
                      !.warnings = IF fake_img.warning THEN {row.fake_path} ELSE {}]
        IN  IF ~show_comparison(ss1)
            THEN [ss |-> ss1, ws |-> restrict(ws1, {gk}), called |-> called,
                  page |-> top]
            ELSE IF real_img.raised
            THEN [ss |-> ss1, ws |-> ws1, called |-> called,
                  page |-> [top EXCEPT !.exception = TRUE,
                              !.images = top.images \cup
                                 (IF fake_img.img THEN {"Fake"} ELSE {})]]
            ELSE [ss |-> ss1, ws |-> restrict(register(ws1, ck, radio_default), {gk, ck}),
                  called |-> called,
                  page |-> [top EXCEPT
                     !.images = top.images
                        \cup (IF fake_img.img THEN {"Fake"} ELSE {})
                        \cup (IF real_img.img THEN {"Real"} ELSE {}),
                     !.warnings = top.warnings
                        \cup (IF real_img.warning THEN {row.real_path} ELSE {}),
                     !.widgets = {gk, ck},
                     !.buttons = buttons1 \cup {"Next"}]]

\* a summary without a button
no_buttons == {}

\* if st.button("Play Again"): the button of the summary
summary_buttons == {"Play Again"}

summary(ss, ws, clicked, r, called) ==
  LET shown == [NoPage EXCEPT !.view = "summary", !.total = Len(ss.df),
                              !.correct_answers = correct_count(ss.answers),
                              !.buttons = summary_buttons]
  IN  IF clicked # "Play Again"
      THEN [ss |-> ss, ws |-> restrict(ws, {}), called |-> called, page |-> shown]
      ELSE IF r.raised
      THEN [ss |-> ss, ws |-> ws, called |-> TRUE,
            page |-> [shown EXCEPT !.exception = TRUE, !.missing = r.missing]]
      ELSE [ss |-> play_again(ss, r), ws |-> restrict(ws, {}), called |-> TRUE,
            page |-> shown]

script(ss0, ws, clicked, r, fs) ==
  IF "df" \notin ss0.keys /\ r.raised
  THEN [ss |-> ss0, ws |-> ws, called |-> TRUE,
        page |-> [NoPage EXCEPT !.view = "load_error", !.exception = TRUE,
                                !.missing = r.missing]]
  ELSE
    LET ss     == session_state_init(ss0, r)
        called == "df" \notin ss0.keys
        total  == Len(ss.df)
    IN  IF no_valid_rows(total)
        THEN [ss |-> ss, ws |-> ws, called |-> called,
              page |-> [NoPage EXCEPT !.view = "no_rows"]]
        ELSE IF in_game(ss.step, total)
        THEN game_loop(ss, ws, clicked, fs, called)
        ELSE summary(ss, ws, clicked, r, called)

\* ---------------------------------------------------------------- actions
round_keys(step) == { guess_key(k) : k \in 0..step } \cup { correct_key(k) : k \in 0..step }

\* The history of widget values: what the widgets hold after the run, kept for
\* the rounds up to the current one.
logged(log, ws, step) ==
  [k \in ((DOMAIN log) \cup (DOMAIN ws)) \cap round_keys(step) |->
     IF k \in DOMAIN ws THEN ws[k] ELSE log[k]]

\* A script run of session s from session state ss and widget values ws.
Run(s, ss, ws, clicked) ==
  \E r \in cached_load_metadata(cache, csv, ROUNDS, files) :
    \E out \in { script(ss, ws, clicked, r, files) } :
        /\ session_state' = [session_state EXCEPT ![s] = out.ss]
        /\ widget_state' = [widget_state EXCEPT ![s] = out.ws]
        /\ page' = [page EXCEPT ![s] = out.page]
        /\ cache' = IF out.called /\ ~r.raised
                    THEN [hit |-> TRUE, value |-> r.df] ELSE cache
        /\ loader_call' = IF ~out.called THEN "none"
                          ELSE IF cache.hit THEN "cached"
                          ELSE IF r.raised THEN "raised" ELSE "body"
        /\ widget_log' = [widget_log EXCEPT ![s] = logged(@, out.ws, out.ss.step)]
        /\ UNCHANGED <<csv, files, sessions, returned>>

\* The page is opened, or rerun without touching a widget.
Rerun(s) == Run(s, session_state[s], widget_state[s], "")

\* The participant edits the text input of the round on the page.
TypeGuess(s, g) ==
  LET gk == guess_key(page[s].round - 1)
  IN  /\ page[s].view = "round"
      /\ gk \in page[s].widgets
      /\ gk \in DOMAIN widget_state[s]
      /\ widget_state[s][gk] # g
      /\ Run(s, session_state[s], [widget_state[s] EXCEPT ![gk] = g], "")

\* The participant picks an option of "Were you correct?".
ChooseCorrect(s, c) ==
  LET ck == correct_key(page[s].round - 1)
  IN  /\ page[s].view = "round"
      /\ ck \in page[s].widgets
      /\ ck \in DOMAIN widget_state[s]
      /\ widget_state[s][ck] # c
      /\ Run(s, session_state[s], [widget_state[s] EXCEPT ![ck] = c], "")

ClickReveal(s) ==
  /\ "Reveal Original" \in page[s].buttons
  /\ Run(s, session_state[s], widget_state[s], "Reveal Original")

\* "Next": the on_click callback runs first, then the script.
ClickNext(s) ==
  /\ "Next" \in page[s].buttons
  /\ Run(s, record_answer(session_state[s], widget_state[s]).ss, widget_state[s], "Next")

ClickPlayAgain(s) ==
  /\ "Play Again" \in page[s].buttons
  /\ Run(s, session_state[s], widget_state[s], "Play Again")

\* An image file is removed from www/ while the app runs.
RemoveFile(f) ==
  /\ f \in files
  /\ Cardinality(ImageFiles \ files) < MaxRemoved
  /\ files' = files \ {f}
  /\ UNCHANGED <<csv, cache, sessions, session_state, widget_state, page,
                 returned, loader_call, widget_log>>

\* A direct call of the loader body, load_metadata(csv, n).
LoadCall(n) ==
  /\ ~returned.called
  /\ \E r \in load_metadata(csv, n, files) :
       returned' = [called |-> TRUE, rounds |-> n, out |-> r]
  /\ UNCHANGED <<csv, files, cache, sessions, session_state, widget_state, page,
                 loader_call, widget_log>>

\* ----------------------------------------------------------- initial states
RECURSIVE SeqsUpTo(_, _)
SeqsUpTo(S, n) ==
  IF n = 0 THEN { <<>> }
  ELSE LET shorter == SeqsUpTo(S, n - 1)
       IN  shorter \cup { Append(q, e) : q \in { q \in shorter : Len(q) = n - 1 }, e \in S }

NoCall == [called |-> FALSE, rounds |-> 0, out |-> Returned(<<>>)]

InitSessions(S) ==
  /\ sessions = S
  /\ cache = NoCache
  /\ session_state = [s \in S |-> NewSessionState]
  /\ widget_state = [s \in S |-> <<>>]
  /\ page = [s \in S |-> NoPage]
  /\ widget_log = [s \in S |-> <<>>]
  /\ returned = NoCall
  /\ loader_call = "none"

Init ==
  /\ csv \in [columns : GameColumns, rows : SeqsUpTo(GameRows, MaxGameRows)]
  /\ files = ImageFiles
  /\ InitSessions({"s1"})

Next ==
  \/ \E s \in sessions : Rerun(s)
  \/ \E s \in sessions, g \in Guesses : TypeGuess(s, g)
  \/ \E s \in sessions, c \in {Choices[1], Choices[2]} : ChooseCorrect(s, c)
  \/ \E s \in sessions : ClickReveal(s)
  \/ \E s \in sessions : ClickNext(s)
  \/ \E s \in sessions : ClickPlayAgain(s)

Spec == Init /\ [][Next]_vars

\* The loader on drawn inputs: manifest, existing files, round count.
InitLoad ==
  /\ csv \in [columns : LoadColumns, rows : SeqsUpTo(LoadRows, MaxRows)]
  /\ files \in LoadFiles
  /\ InitSessions({"s1"})

NextLoad ==
  \/ \E n \in 0..MaxRounds : LoadCall(n)
  \/ \E s \in sessions : Rerun(s)

SpecLoad == InitLoad /\ [][NextLoad]_vars

\* The session while image files disappear from www/ after the start.
\* The manifest of n rows that names the two image pairs in turn.
FileRows(n) ==
  [i \in 1..n |-> IF i % 2 = 1 THEN <<"fake/1.jpg", "real/1.jpg">>
                  ELSE <<"fake/2.jpg", "real/2.jpg">>]

InitFiles ==
  /\ csv \in [columns : { <<"fake_path", "real_path">> },
               rows : { FileRows(n) : n \in 0..MaxFileRows }]
  /\ files = ImageFiles
  /\ InitSessions({"s1"})

NextFiles ==
  \/ Next
  \/ \E f \in ImageFiles : RemoveFile(f)

SpecFiles == InitFiles /\ [][NextFiles]_vars

\* Two browser sessions of the same server process.
InitShared ==
  /\ csv \in [columns : { <<"fake_path", "real_path">> },
               rows : SeqsUpTo(ValidRows, MaxSharedRows)]
  /\ files = ImageFiles
  /\ InitSessions({"s1", "s2"})

SpecShared == InitShared /\ [][Next]_vars

\* A participant who clicks the buttons and touches no input.
NextUntouched ==
  \/ \E s \in sessions : Rerun(s)
  \/ \E s \in sessions : ClickReveal(s)
  \/ \E s \in sessions : ClickNext(s)
  \/ \E s \in sessions : ClickPlayAgain(s)

SpecUntouched == Init /\ [][NextUntouched]_vars

\* A step of session s: a script run started by the participant.
SessionStep(s) ==
  \/ Rerun(s)
  \/ \E g \in Guesses : TypeGuess(s, g)
  \/ \E c \in {Choices[1], Choices[2]} : ChooseCorrect(s, c)
  \/ ClickReveal(s)
  \/ ClickNext(s)
  \/ ClickPlayAgain(s)

\* ------------------------------------------------------------------ claims
Complete(s) ==
  /\ "df" \in session_state[s].keys
  /\ Len(session_state[s].df) > 0
  /\ session_state[s].step >= Len(session_state[s].df)

\* C1: an advance ("Next") taken in state Revealed at index i < total with
\* pending guess g and choice c appends exactly the record {g, c = "Yes"} to the
\* end of the answer log, increments the index by exactly 1 and resets revealed.
C1_AdvanceAppendsRecord ==
  [][\A s \in sessions :
       ClickNext(s) =>
         LET ss == session_state[s]
             ws == widget_state[s]
         IN  /\ ss.show_real
             /\ ss.step < Len(ss.df)
             /\ session_state'[s].answers =
                  Append(ss.answers,
                         [guess |-> ws[guess_key(ss.step)],
                          correct |-> (ws[correct_key(ss.step)] = "Yes")])
             /\ session_state'[s].step = ss.step + 1
             /\ session_state'[s].show_real = FALSE
             /\ session_state'[s].df = ss.df]_vars

\* C1 witness: the first round was advanced with guess "nose" and choice "Yes".
C1_Witness ==
  \E s \in sessions :
    /\ session_state[s].step = 1
    /\ session_state[s].answers = << [guess |-> "nose", correct |-> TRUE] >>
    /\ ~session_state[s].show_real

\* C2: for every position k below the current index, the k-th record of the
\* answer log holds the values that were entered under round k's own keys
\* guess_k and correct_k, which both exist.
C2_RecordsHoldOwnRoundInputs ==
  \A s \in sessions :
    \A k \in 0..(session_state[s].step - 1) :
      /\ k + 1 <= Len(session_state[s].answers)
      /\ guess_key(k) \in DOMAIN widget_log[s]
      /\ correct_key(k) \in DOMAIN widget_log[s]
      /\ session_state[s].answers[k + 1] =
           [guess |-> widget_log[s][guess_key(k)],
            correct |-> (widget_log[s][correct_key(k)] = "Yes")]

\* C2 witness: two rounds advanced whose inputs differ in both fields.
C2_Witness ==
  \E s \in sessions :
    /\ session_state[s].step = 2
    /\ session_state[s].answers =
         << [guess |-> "nose", correct |-> FALSE], [guess |-> "", correct |-> TRUE] >>

\* C3: with total > 0 rows, once the index equals total (total advances, one
\* record each) the summary is what the session shows, without a further
\* trigger, and it reports the number of records with correct = TRUE against
\* total = the length of the DataFrame.
C3_CompleteShowsSummary ==
  \A s \in sessions :
    ( /\ "df" \in session_state[s].keys
      /\ Len(session_state[s].df) > 0
      /\ session_state[s].step = Len(session_state[s].df) )
    => /\ page[s].view = "summary"
       /\ Len(session_state[s].answers) = Len(session_state[s].df)
       /\ page[s].total = Len(session_state[s].df)
       /\ page[s].correct_answers =
            Cardinality({ i \in 1..Len(session_state[s].answers) :
                            session_state[s].answers[i].correct })

\* C3 witness: three rounds answered Yes, No, Yes show 2 out of 3.
C3_Witness ==
  \E s \in sessions :
    /\ session_state[s].step = 3
    /\ Len(session_state[s].df) = 3
    /\ [i \in 1..3 |-> session_state[s].answers[i].correct] = <<TRUE, FALSE, TRUE>>
    /\ page[s].view = "summary"
    /\ page[s].correct_answers = 2
    /\ page[s].total = 3

\* C4: after a click on "Play Again", whatever the log and the index were, the
\* session has index 0, an empty answer log and revealed = FALSE.
C4_RestartResets ==
  [][\A s \in sessions :
       ClickPlayAgain(s) =>
         /\ session_state'[s].step = 0
         /\ session_state'[s].answers = <<>>
         /\ session_state'[s].show_real = FALSE]_vars

\* C4 witness: the restart has acted on a finished game with a correct answer:
\* the summary of that game is still on the page, the session state is reset.
C4_Witness ==
  \E s \in sessions :
    /\ page[s].view = "summary"
    /\ page[s].correct_answers >= 1
    /\ session_state[s].step = 0
    /\ session_state[s].answers = <<>>
    /\ ~session_state[s].show_real

\* C5 (as claimed): every restart executes the loader body (filter, shuffle,
\* truncate) again instead of returning the stored result of the first load.
C5_RestartRunsLoaderBody ==
  [][\A s \in sessions :
       (ClickPlayAgain(s) /\ Complete(s)) => loader_call' = "body"]_vars

\* C6 (as claimed): a restart action is enabled in Guessing, in Revealed and in
\* Complete, that is on every page that shows a round or the summary.
C6_RestartEnabledEverywhere ==
  \A s \in sessions :
    page[s].view \in {"round", "summary"} => "Play Again" \in page[s].buttons

\* C6 (amended): no restart action is enabled while a round is on the page
\* (Guessing, Revealed): the button is rendered on the summary only; in
\* Complete the restart action is enabled, and a click on it leads to the
\* reset state.
C6_RestartOnlyInComplete ==
  [][\A s \in sessions :
       /\ "Play Again" \in page'[s].buttons => page'[s].view = "summary"
       /\ Complete(s)' => "Play Again" \in page'[s].buttons
       /\ ClickPlayAgain(s) =>
            /\ session_state'[s].step = 0
            /\ session_state'[s].answers = <<>>
            /\ session_state'[s].show_real = FALSE]_vars

\* C6 witness: the restart was clicked in Complete after two rounds without a
\* correct answer, and the session is reset.
C6_Witness ==
  \E s \in sessions :
    /\ page[s].view = "summary"
    /\ "Play Again" \in page[s].buttons
    /\ page[s].total = 2
    /\ page[s].correct_answers = 0
    /\ session_state[s].step = 0
    /\ session_state[s].answers = <<>>

\* The required columns that no name of a header is after trimming and
\* lower-casing.
AbsentIn(columns) ==
  { c \in {"fake_path", "real_path"} :
      \A j \in 1..Len(columns) : lower(strip(columns[j])) # c }

\* Where a header names the two required columns (0 for an absent one).
PlaceIn(columns, name) ==
  IF name \in AbsentIn(columns) THEN 0
  ELSE CHOOSE j \in 1..Len(columns) : lower(strip(columns[j])) = name

\* A cell passes the emptiness and existence filters.
CellSurvivesIn(text, fs) ==
  /\ text \notin NaValues
  /\ strip(text) # ""
  /\ os_path_exists(_abs_from_rel(strip(text)), fs)

\* The three operators above on every drawn header and cell, evaluated once.
HeaderFacts ==
  [ columns \in LoadColumns |->
      [ absent |-> AbsentIn(columns),
        fake   |-> PlaceIn(columns, "fake_path"),
        real   |-> PlaceIn(columns, "real_path") ] ]

CellFacts ==
  [ text \in { row[j] : row \in LoadRows \cup GameRows, j \in 1..2 }, fs \in SUBSET ImageFiles |->
      CellSurvivesIn(text, fs) ]

AbsentColumns == HeaderFacts[csv.columns].absent

\* survivingRows: the number of manifest rows passing both filters.
SurvivingRows ==
  Cardinality({ i \in 1..Len(csv.rows) :
                  /\ CellFacts[csv.rows[i][HeaderFacts[csv.columns].fake], files]
                  /\ CellFacts[csv.rows[i][HeaderFacts[csv.columns].real], files] })

\* C7: when both required columns are present, load_metadata(csv, n) returns
\* without error a DataFrame of exactly min(n, survivingRows) rows (n >= 0),
\* the empty one when no row survives.
C7_LengthIsMinOfRoundsAndSurvivors ==
  (returned.called /\ AbsentColumns = {}) =>
     /\ ~returned.out.raised
     /\ Len(returned.out.df) = Min(returned.rounds, SurvivingRows)

\* C7 witness: two rows survive and one round is asked for: one row is returned.
C7_Witness ==
  /\ returned.called
  /\ returned.rounds = 1
  /\ AbsentColumns = {}
  /\ SurvivingRows = 2
  /\ Len(returned.out.df) = 1

\* C8: the load fails with the schema error exactly when fake_path or real_path
\* is absent after trimming and lower-casing the header; the error names exactly
\* the absent columns, whatever the rows are, and then no DataFrame is produced:
\* the cache and the session state stay empty.
C8_SchemaErrorIffColumnAbsent ==
  LET named == SelectSeq(<<"fake_path", "real_path">>, LAMBDA c : c \in AbsentColumns)
  IN  /\ returned.called =>
           /\ returned.out.raised <=> AbsentColumns # {}
           /\ returned.out.raised =>
                returned.out.missing = named /\ returned.out.df = <<>>
      /\ \A s \in sessions :
           page[s].view # "none" =>
             /\ page[s].view = "load_error" <=> AbsentColumns # {}
             /\ AbsentColumns # {} =>
                  /\ page[s].missing = named
                  /\ session_state[s].keys = {}
                  /\ ~cache.hit
             /\ AbsentColumns = {} => "df" \in session_state[s].keys

\* C8 witness: a manifest with rows lacks real_path only; the page opened and
\* shows the error naming real_path.
C8_Witness ==
  \E s \in sessions :
    /\ page[s].view = "load_error"
    /\ page[s].missing = <<"real_path">>
    /\ Len(csv.rows) > 0
    /\ session_state[s].keys = {}

\* A path text is non-empty, trimmed, and names a regular file under www/.
IsFileUnderRoot(text) ==
  LET found == stat(_abs_from_rel(text), files)
  IN  /\ text # ""
      /\ strip(text) = text
      /\ found.ok
      /\ found.node \in files \cup OtherFiles
      /\ Len(found.node) > 2
      /\ SubSeq(found.node, 1, 2) = <<"app", "www">>

\* C9 (as claimed): every row of a returned DataFrame has a fake_path and a
\* real_path that are non-empty after trimming and resolve, under the asset
\* root, to files that exist when the loader runs.
C9_RowsNameExistingFiles ==
  returned.called =>
    \A i \in 1..Len(returned.out.df) :
      /\ IsFileUnderRoot(returned.out.df[i].fake_path)
      /\ IsFileUnderRoot(returned.out.df[i].real_path)

\* C10: when no manifest row survives filtering, the loader returns the empty
\* DataFrame without error and the session sits in the no-content state: no
\* button and no widget is on the page, the index is 0 and the answer log is
\* empty, and the page is not the summary.
C10_EmptyDatasetIsNoContent ==
  \A s \in sessions :
    /\ (page[s].view # "none" /\ AbsentColumns = {} /\ SurvivingRows = 0) =>
          "df" \in session_state[s].keys /\ Len(session_state[s].df) = 0
    /\ ("df" \in session_state[s].keys /\ Len(session_state[s].df) = 0) =>
          /\ page[s].view = "no_rows"
          /\ ~page[s].exception
          /\ page[s].buttons = {}
          /\ page[s].widgets = {}
          /\ session_state[s].step = 0
          /\ session_state[s].answers = <<>>
          /\ ~session_state[s].show_real

\* C10 witness: the manifest has rows, none survived, the page was opened.
C10_Witness ==
  \E s \in sessions :
    /\ Len(csv.rows) > 0
    /\ AbsentColumns = {}
    /\ SurvivingRows = 0
    /\ page[s].view = "no_rows"


\* What the path of a manifest cell names in a state of www/: nothing
\* ("missing"), an image file ("image"), or a directory or a file that is no
\* image ("other"); evaluated once.
PathState ==
  [text \in CellTexts, fs \in SUBSET ImageFiles |->
     LET found == stat(_abs_from_rel(text), fs)
     IN  IF ~found.ok THEN "missing"
         ELSE IF found.node \in fs THEN "image" ELSE "other"]

\* C11: when a path of the current round names no existing file at render time
\* (removed after the load), the run raises no exception and shows a warning
\* in place of that image, the page keeps "Reveal Original" before the reveal
\* and "Next" after it, and "Next" on such a page appends one record and
\* increments the index.
C11_MissingImageKeepsRoundPlayable ==
  [][\A s \in sessions :
       /\ (files' = files /\ page'[s].view = "round") =>
            LET ss   == session_state'[s]
                row  == ss.df[ss.step + 1]
                p    == page'[s]
                fake == PathState[row.fake_path, files]
                real == PathState[row.real_path, files]
            IN  ( /\ fake \in {"missing", "image"}
                  /\ real \in {"missing", "image"}
                  /\ fake = "missing" \/ (ss.show_real /\ real = "missing") ) =>
                    \/ /\ ~p.exception
                       /\ fake = "missing" =>
                            row.fake_path \in p.warnings /\ "Fake Image" \notin p.images
                       /\ (ss.show_real /\ real = "missing") =>
                            row.real_path \in p.warnings /\ "Real" \notin p.images
                       /\ IF ss.show_real THEN "Next" \in p.buttons
                          ELSE "Reveal Original" \in p.buttons
                    \* or the page is an older one: s did not run in this step
                    \/ ~SessionStep(s)
       /\ (page[s].warnings # {} /\ "Next" \in page[s].buttons) =>
            \/ /\ Len(session_state'[s].answers) = Len(session_state[s].answers) + 1
               /\ session_state'[s].step = session_state[s].step + 1
            \* or the step is not a click on "Next"
            \/ ~ClickNext(s)]_vars

\* C11 witness: a revealed round whose page warns about a missing image and
\* offers "Next", in a session that has already advanced past one round.
C11_Witness ==
  \E s \in sessions :
    /\ session_state[s].step = 1
    /\ Len(session_state[s].answers) = 1
    /\ session_state[s].show_real
    /\ page[s].view = "round"
    /\ page[s].warnings # {}
    /\ "Next" \in page[s].buttons
    /\ files # ImageFiles

\* C12 (as claimed): whatever the paths of the current row name at render time
\* (nothing, a directory, a file that is no image), rendering the round raises
\* no exception and the page keeps "Reveal Original" before the reveal and
\* "Next" after it.
C12_NoRoundFailureAborts ==
  \A s \in sessions :
    page[s].view = "round" =>
      /\ ~page[s].exception
      /\ IF session_state[s].show_real THEN "Next" \in page[s].buttons
         ELSE "Reveal Original" \in page[s].buttons

\* C13 (as claimed): simultaneous sessions are isolated: a step of one session
\* changes nothing of another session (Dataset, index, revealed flag, answer
\* log, widgets, page), and the Dataset a session starts with is computed by
\* its own run of the loader, not taken from something an earlier session
\* wrote.
C13_SessionsAreIsolated ==
  [][\A s \in sessions :
       SessionStep(s) =>
         /\ \A t \in sessions \ {s} :
              /\ session_state'[t] = session_state[t]
              /\ widget_state'[t] = widget_state[t]
              /\ page'[t] = page[t]
         /\ ("df" \notin session_state[s].keys /\ "df" \in session_state'[s].keys) =>
              loader_call' # "cached"]_vars

\* C14: "Reveal Original" clicked in state Guessing changes nothing of the
\* session but the revealed flag, which goes from false to true: the index,
\* the answer log and the Dataset stay as they are, and so does the loader's
\* cache; this also holds when the real image of the row cannot be loaded.
C14_RevealChangesOnlyRevealed ==
  [][\A s \in sessions :
       (ClickReveal(s) /\ page[s].view = "round" /\ ~session_state[s].show_real) =>
         /\ session_state'[s] = [session_state[s] EXCEPT !.show_real = TRUE]
         /\ cache' = cache]_vars

\* C14 witness: the first round is revealed, its real image is missing, and
\* the index and the answer log are still the initial ones.
C14_Witness ==
  \E s \in sessions :
    /\ session_state[s].show_real
    /\ session_state[s].step = 0
    /\ session_state[s].answers = <<>>
    /\ page[s].view = "round"
    /\ session_state[s].df[1].real_path \in page[s].warnings

\* C15: between two restarts the answer log is append-only in round order:
\* every step of a session other than an executed "Play Again" leaves the
\* records already written unchanged and in place and adds at most one record
\* at the end, a reveal adds none, and the log holds exactly one record per
\* completed round.
C15_AnswerLogAppendOnly ==
  [][\A s \in sessions :
       LET log  == session_state[s].answers
           log1 == session_state'[s].answers
       IN  /\ \/ /\ Len(log1) \in {Len(log), Len(log) + 1}
                 /\ SubSeq(log1, 1, Len(log)) = log
              \/ /\ ClickPlayAgain(s)
                 /\ Complete(s)
                 /\ log1 = <<>>
           /\ ClickReveal(s) => log1 = log
           /\ Len(log1) = session_state'[s].step]_vars

\* C15 witness: the third round is revealed after two advances that wrote two
\* different records.
C15_Witness ==
  \E s \in sessions :
    /\ session_state[s].step = 2
    /\ session_state[s].show_real
    /\ Len(session_state[s].answers) = 2
    /\ session_state[s].answers[1] # session_state[s].answers[2]

\* How many rows of a DataFrame equal the given row.
Occurrences(df, row) == Cardinality({ i \in 1..Len(df) : df[i] = row })

RECURSIVE resolve(_, _, _)
resolve(segs, i, cur) ==
  IF i > Len(segs) THEN cur
  ELSE IF segs[i] \in {"", "."} THEN resolve(segs, i + 1, cur)
  ELSE IF segs[i] = ".."
  THEN resolve(segs, i + 1, IF cur = <<>> THEN cur ELSE SubSeq(cur, 1, Len(cur) - 1))
  ELSE resolve(segs, i + 1, Append(cur, segs[i]))

\* Whether the path _abs_from_rel gives a non-empty cell text lies under www/;
\* evaluated once.
UnderWww ==
  [text \in CellTexts \ {""} |->
     LET place == resolve(split(_abs_from_rel(text)), 1, <<>>)
     IN  Len(place) >= 2 /\ SubSeq(place, 1, 2) = <<"app", "www">>]

\* C17 (as claimed): the path _abs_from_rel resolves for a non-empty relative
\* path lies under www/, whatever its segments (empty, ".", "..", a leading
\* separator): no row of a returned DataFrame names a place outside www/.
C17_ResolvedPathsUnderRoot ==
  returned.called =>
    \A i \in 1..Len(returned.out.df) :
      /\ UnderWww[returned.out.df[i].fake_path]
      /\ UnderWww[returned.out.df[i].real_path]

\* C18: in every reachable state the index is between 0 and the length of the
\* Dataset, the answer log has exactly as many records as the index says, no
\* "Next" is on the page once the index equals the length, and the revealed
\* flag is false in state Complete.
C18_IndexAndLogStayInStep ==
  \A s \in sessions :
    /\ session_state[s].step >= 0
    /\ Len(session_state[s].answers) = session_state[s].step
    /\ "df" \in session_state[s].keys =>
         /\ session_state[s].step <= Len(session_state[s].df)
         /\ session_state[s].step = Len(session_state[s].df) =>
              "Next" \notin page[s].buttons
    /\ Complete(s) => ~session_state[s].show_real

\* C18 witness: a session of three rounds in state Complete, showing the
\* summary.
C18_Witness ==
  \E s \in sessions :
    /\ Complete(s)
    /\ Len(session_state[s].df) = 3
    /\ session_state[s].step = 3
    /\ Len(session_state[s].answers) = 3
    /\ page[s].view = "summary"

\* C19: an advance is possible only in state Revealed: "Next" is on the page
\* only while the revealed flag of the round is true; a step that appends a
\* record or increments the index is a click on "Next" taken with the flag
\* true, and it starts the next round with the flag false; the flag becomes
\* true only by "Reveal Original", within the same round.
C19_AdvanceOnlyFromRevealed ==
  [][\A s \in sessions :
       LET ss  == session_state[s]
           ss1 == session_state'[s]
       IN  /\ "Next" \in page'[s].buttons =>
                page'[s].view = "round" /\ ss1.show_real
           /\ (ss1.step > ss.step \/ Len(ss1.answers) > Len(ss.answers)) =>
                /\ ss.show_real
                /\ ClickNext(s)
                /\ ~ss1.show_real
           /\ (~ss.show_real /\ ss1.show_real) =>
                /\ ClickReveal(s)
                /\ ss1.step = ss.step]_vars

\* C19 witness: the second round waits in Guessing after the first was
\* revealed and advanced: "Reveal Original" is on the page and "Next" is not.
C19_Witness ==
  \E s \in sessions :
    /\ session_state[s].step = 1
    /\ Len(session_state[s].answers) = 1
    /\ ~session_state[s].show_real
    /\ page[s].round = 2
    /\ "Reveal Original" \in page[s].buttons
    /\ "Next" \notin page[s].buttons

\* C20: when the participant touches no input, the guess of a round is "" and
\* the self-assessment is "Yes": every record appended is {"", correct}, and
\* the summary of such a session counts every round as correct.
C20_UntouchedInputsCountAsCorrect ==
  \A s \in sessions :
    /\ \A k \in DOMAIN widget_state[s] :
         widget_state[s][k] \in {"", "Yes"}
    /\ \A i \in 1..Len(session_state[s].answers) :
         session_state[s].answers[i] = [guess |-> "", correct |-> TRUE]
    /\ page[s].view = "summary" =>
         page[s].correct_answers = page[s].total

\* C20 witness: the summary of a session of three rounds played without
\* touching an input shows 3 out of 3.
C20_Witness ==
  \E s \in sessions :
    /\ page[s].view = "summary"
    /\ page[s].total = 3
    /\ page[s].correct_answers = 3
    /\ Len(session_state[s].answers) = 3

====
